---- MODULE Spec2Model ----
(***************************************************************************)
(* Model of src/demo.py: the synthetic defect-data generator               *)
(* (create_sample_data) and the pipeline that writes the five CSV files    *)
(* and the metadata document (simulate_data_processing).                   *)
(*                                                                         *)
(* Library behaviour that the script relies on is abstracted as follows:   *)
(*  - numpy's global RandomState is a counter-based generator: its state   *)
(*    is a pair (key, pos); seeding sets (seed, 0); the k-th raw word is a *)
(*    fixed function of (key, pos + k).  What the model keeps of the real  *)
(*    generator is that the stream is a function of the state alone and    *)
(*    that different states give different streams.                        *)
(*  - floating point (the logistic transform) is fixed point with FixOne   *)
(*    units per 1.0.                                                       *)
(*  - a file is its parsed content; an I/O call either succeeds, fails     *)
(*    before touching the file, or (writes) fails after the file was       *)
(*    opened for writing and truncated.                                    *)
(***************************************************************************)
EXTENDS Integers, Sequences, FiniteSets, TLC

\* ---------------------------------------------------------------- bounds
\* How many times the program is launched on the same target directory.
MaxRuns == 2
\* The entropy a fresh process seeds numpy's global generator with: 0..MaxEntropy.
MaxEntropy == 1
\* A write that fails after opening the file leaves 0..MaxPartial complete
\* records (lines of a CSV text, entries of the JSON array) behind.
MaxPartial == 1

\* ------------------------------------------------------ program constants
n_samples == 1000
SEED == 42

\* --------------------------------------------------------------- schema
\* The keys of the `data` dict, in insertion order (lines 22-41).
FeatureNames ==
  << "loc", "v_g", "ev_g", "iv_g", "n", "v", "d", "i", "e", "b", "t",
     "lOCode", "lOComment", "lOBlank", "lOCodeAndComment", "uniq_Op",
     "uniq_Opnd", "total_Op", "total_Opnd", "branchCount" >>

\* The (low, high) arguments of each np.random.randint call (lines 22-41).
FeatureArgs ==
  << <<10, 10000>>, <<1, 50>>, <<1, 100>>, <<1, 30>>, <<5, 500>>,
     <<10, 2000>>, <<1, 100>>, <<1, 50>>, <<50, 50000>>, <<1, 1000>>,
     <<1, 3000>>, <<5, 8000>>, <<0, 2000>>, <<0, 1000>>, <<0, 100>>,
     <<1, 50>>, <<1, 100>>, <<10, 1000>>, <<10, 2000>>, <<0, 200>> >>

\* ------------------------------------------------------------------ rng
\* One raw word of the stream of generator state (key, pos), in 0..65520.
RawWord(key, pos) == ((key * 1103 + pos) * 7919 + 13) % 65521

\* np.random.seed(s): the state every later draw is a function of.
seed(s) == [key |-> s, pos |-> 0]

\* Mutant of randint: the upper end is included, as in random.randint.
randint_inclusive(g, low, high, size) ==
  [k \in 1..size |-> low + (RawWord(g.key, g.pos + k) % (high - low + 1))]

\* np.random.randint(low, high, size) on state g: `size` integers, each
\* low + (raw word reduced to the width high - low).
randint(g, low, high, size) ==
  [k \in 1..size |-> low + (RawWord(g.key, g.pos + k) % (high - low))]

\* The generator state after drawing `size` words.
advance(g, size) == [key |-> g.key, pos |-> g.pos + size]

\* ------------------------------------------------------------ fixed point
FixOne == 10000

\* FixOne * exp(t / FixOne) for t in about -7*FixOne .. FixOne: a degree-6
\* Taylor polynomial at t/8, raised to the 8th power by three squarings.
exp(t) ==
  LET y  == t \div 8
      t1 == y
      t2 == (t1 * y) \div (2 * FixOne)
      t3 == (t2 * y) \div (3 * FixOne)
      t4 == (t3 * y) \div (4 * FixOne)
      t5 == (t4 * y) \div (5 * FixOne)
      t6 == (t5 * y) \div (6 * FixOne)
      e8 == FixOne + t1 + t2 + t3 + t4 + t5 + t6
      e4 == (e8 * e8) \div FixOne
      e2 == (e4 * e4) \div FixOne
  IN  (e2 * e2) \div FixOne

\* Lines 46-51, times FixOne: v_g/50 + ev_g/100 + d/100 + loc/10000.
complexity_score(v_g, ev_g, d, loc) ==
  v_g * (FixOne \div 50) + ev_g * (FixOne \div 100) + d * (FixOne \div 100)
    + loc * (FixOne \div 10000)

\* Line 54, times FixOne: 1 / (1 + exp(-2 * (score - 0.5))).
defect_prob(score) ==
  (FixOne * FixOne) \div (FixOne + exp((0 - 2) * (score - (FixOne \div 2))))

\* np.random.binomial(n, p) for one row: the number of successes in n
\* Bernoulli trials of probability p, trial j succeeding when the j-th
\* uniform draw (a raw word scaled to [0, FixOne)) is below p.
binomial(g, n, p, row) ==
  Cardinality({ j \in 1..n :
     (RawWord(g.key, g.pos + (row - 1) * n + j) * FixOne) \div 65521 < p })

\* ------------------------------------------------- create_sample_data
\* Mutant of SeededState: the call does not re-seed.
SeededState_unseeded(g) == g

\* The generator state create_sample_data draws from: line 15 re-seeds the
\* global state, whatever it was.
SeededState(g) == seed(SEED)

\* The state before the draw of the c-th feature column.
ColumnState(g, c) == advance(SeededState(g), (c - 1) * n_samples)

\* Lines 21-42: the dict of the 20 feature columns, as a sequence in
\* insertion order.
Features(g) ==
  [c \in 1..Len(FeatureNames) |->
     randint(ColumnState(g, c), FeatureArgs[c][1], FeatureArgs[c][2], n_samples)]

\* The position of a feature column in the dict.
Col(name) == CHOOSE c \in 1..Len(FeatureNames) : FeatureNames[c] = name

\* Mutant of Defects: two trials per row instead of one.
Defects_two_trials(g, data) ==
  LET gl == advance(seed(SEED), Len(FeatureNames) * n_samples)
  IN  [r \in 1..n_samples |->
         binomial(gl, 2,
                  defect_prob(complexity_score(data[2][r], data[3][r],
                                               data[7][r], data[1][r])),
                  r)]

\* Lines 46-55: the label column.
Defects(g, data) ==
  LET gl == ColumnState(g, Len(FeatureNames) + 1)
  IN  [r \in 1..n_samples |->
         binomial(gl, 1,
                  defect_prob(complexity_score(data[Col("v_g")][r],
                                               data[Col("ev_g")][r],
                                               data[Col("d")][r],
                                               data[Col("loc")][r])),
                  r)]

\* Mutant of create_sample_data: the label column is not added.
create_sample_data_unlabelled(g) ==
  [columns |-> FeatureNames, values |-> Features(g)]

\* Lines 13-57: the DataFrame returned (columns: the names in order,
\* values: one array per column) ...
create_sample_data(g) ==
  LET data == Features(g)
  IN  [columns |-> Append(FeatureNames, "defects"),
       values  |-> Append(data, Defects(g, data))]

\* ... and the global generator state the call leaves behind.
StateAfterCreate(g) == advance(SeededState(g), (Len(FeatureNames) + 1) * n_samples)

\* -------------------------------------------------------------- pandas
\* Divide-and-conquer sum of f[lo..hi].
RECURSIVE SumRange(_, _, _)
SumRange(f, lo, hi) ==
  IF lo > hi THEN 0
  ELSE IF lo = hi THEN f[lo]
  ELSE SumRange(f, lo, (lo + hi) \div 2) + SumRange(f, (lo + hi) \div 2 + 1, hi)

\* The marker of a missing cell (NaN / None); no int64 value equals it.
NaN == -2147483647

\* len(df), df.shape[0]: the number of rows.
len(frame) == IF frame.values = << >> THEN 0 ELSE Len(frame.values[1])

\* The position of a column of a frame.
ColumnIndex(frame, name) ==
  CHOOSE c \in 1..Len(frame.columns) : frame.columns[c] = name

\* df[name]
Column(frame, name) == frame.values[ColumnIndex(frame, name)]

\* Mutant of isnull: notnull is used instead.
isnull_inverted(x) == x # NaN

\* pandas' isnull on one cell.
isnull(x) == x = NaN

\* df.isnull().sum().to_dict(): per column, the number of missing cells.
missing_values(frame) ==
  [name \in { frame.columns[c] : c \in 1..Len(frame.columns) } |->
     Cardinality({ r \in 1..len(frame) : isnull(Column(frame, name)[r]) })]

\* df.dtypes.astype(str).to_dict(): randint and binomial return int64 arrays
\* (on the platforms where C long is 64 bits wide).
data_types(frame) ==
  [name \in { frame.columns[c] : c \in 1..Len(frame.columns) } |-> "int64"]

\* The text of one cell in a CSV file: decimal digits, nothing for a
\* missing cell.
CellText(x) == IF isnull(x) THEN "" ELSE ToString(x)

\* df.to_csv(path, index=False): a header row of the column names and one
\* row of cell texts per frame row, no index column.
to_csv(frame) ==
  [header |-> frame.columns,
   rows   |-> [r \in 1..len(frame) |->
                 [c \in 1..Len(frame.columns) |-> CellText(frame.values[c][r])]]]

\* df.head(): the first five rows.
head(frame) ==
  [columns |-> frame.columns,
   values  |-> [c \in 1..Len(frame.columns) |->
                  [r \in 1..(IF len(frame) < 5 THEN len(frame) ELSE 5) |->
                     frame.values[c][r]]]]

\* ------------------------------------------------------------ formatting
\* The two-digit text of d in 0..99.
TwoDigits(d) == IF d < 10 THEN "0" \o ToString(d) ELSE ToString(d)

\* f"{num/den:.2%}": the ratio in hundredths of a percent, rounded to the
\* nearest (ties to even), as "<integer part>.<two digits>%".
FormatPercent(num, den) ==
  LET q == (num * 10000) \div den
      r == (num * 10000) % den
      h == IF 2 * r > den \/ (2 * r = den /\ q % 2 = 1) THEN q + 1 ELSE q
  IN  ToString(h \div 100) \o "." \o TwoDigits(h % 100) \o "%"

\* Mutant of defect_rate: the fraction is not scaled to a percentage.
defect_rate_unscaled(frame) ==
  FormatPercent(SumRange(Column(frame, "defects"), 1, len(frame)),
                100 * len(frame))

\* f"{df['defects'].mean():.2%}" (line 110).
defect_rate(frame) ==
  FormatPercent(SumRange(Column(frame, "defects"), 1, len(frame)), len(frame))

\* str.upper on the identifiers the program applies it to.
upper(name) ==
  CASE name = "kc1" -> "KC1" [] name = "kc2" -> "KC2" [] name = "pc1" -> "PC1"
    [] name = "pc2" -> "PC2" [] name = "cm1" -> "CM1"

\* ch * n: the one-character string ch repeated n times.
RECURSIVE Rule(_, _)
Rule(ch, n) == IF n = 0 THEN "" ELSE ch \o Rule(ch, n - 1)

\* Lines 61-62: what a launch writes to standard output first.
Banner == << "NASA Software Defect Prediction - Demo Mode", Rule("=", 50) >>

\* The strings of a sequence joined by single blanks.
RECURSIVE Join(_)
Join(ss) == IF ss = << >> THEN ""
            ELSE IF Len(ss) = 1 THEN ss[1]
            ELSE ss[1] \o " " \o Join(Tail(ss))

\* print(df.head()): one line of column names and one line per row (row
\* index, then the cells); pandas' alignment and elision are not modelled.
FrameLines(frame) ==
  << Join(frame.columns) >> \o
  [r \in 1..len(frame) |->
     Join(<< ToString(r - 1) >> \o
          [c \in 1..Len(frame.columns) |-> CellText(frame.values[c][r])])]

\* ------------------------------------------------------------ the paths
\* Lines 66-69, relative to base_dir.
data_dir == "data"
raw_dir == "data/raw"
processed_dir == "data/processed"
metadata_dir == "data/metadata"

\* The list line 72 iterates over.
Directories == << raw_dir, processed_dir, metadata_dir >>

\* The directories above one of them, below base_dir.
Parents(directory) == { data_dir }

\* Mutant of DatasetNames: another insertion order.
DatasetNames_reordered == << "cm1", "kc1", "kc2", "pc1", "pc2" >>

\* The keys of the `datasets` dict in insertion order (lines 78-84).
DatasetNames == << "kc1", "kc2", "pc1", "pc2", "cm1" >>

\* Mutant of csv_file: the files go to the raw directory.
csv_file_in_raw(name) == << raw_dir, name \o ".csv" >>

\* Mutant of csv_file: the braces of the f-string are missing, every
\* dataset goes to the same file.
csv_file_one_name(name) == << processed_dir, "name.csv" >>

\* A path: the directory and the file name in it.
\* Line 90: processed_dir / f"{name}.csv".
csv_file(name) == << processed_dir, name \o ".csv" >>

\* Line 116: metadata_dir / "dataset_info.json".
metadata_file == << metadata_dir, "dataset_info.json" >>

\* ------------------------------------------------------------- metadata
\* Lines 95-100.
NewMetadata ==
  [dataset_name |-> "NASA Software Defect Prediction (Demo Data)",
   source       |-> "Generated sample data for demonstration",
   description  |-> "Sample NASA-style software defect prediction datasets",
   files        |-> << >>]

\* Lines 103-112.
file_info(name, frame) ==
  [filename       |-> name \o ".csv",
   rows           |-> len(frame),
   columns        |-> Len(frame.columns),
   column_names   |-> frame.columns,
   data_types     |-> data_types(frame),
   missing_values |-> missing_values(frame),
   defect_rate    |-> defect_rate(frame),
   description    |-> "Sample NASA " \o upper(name) \o " dataset with "
                        \o ToString(len(frame)) \o " samples"]

\* Line 113: metadata_info["files"].append(file_info).
AppendFile(info, entry) == [info EXCEPT !.files = Append(@, entry)]

\* ---------------------------------------------------------------- files
\* What a file holds: a CSV text or a JSON text.  `complete` is false for a
\* text cut off by a failed write.
CsvContent(text) == [kind |-> "csv", complete |-> TRUE, text |-> text]
JsonContent(doc) == [kind |-> "json", complete |-> TRUE, text |-> doc]

\* A CSV text cut off after `k` complete lines (0: the file is empty).
CsvCut(text, k) ==
  [kind |-> "csv", complete |-> FALSE,
   text |-> IF k = 0 THEN [header |-> << >>, rows |-> << >>]
            ELSE [header |-> text.header, rows |-> SubSeq(text.rows, 1, k - 1)]]

\* A JSON text cut off after `k` complete entries of "files".
JsonCut(doc, k) ==
  [kind |-> "json", complete |-> FALSE,
   text |-> [doc EXCEPT !.files = SubSeq(@, 1, k)]]

\* open(path, 'w') followed by a complete write and close: the file holds
\* the new content, whatever it held.
WriteFile(fs, path, content) ==
  [p \in DOMAIN fs \cup { path } |-> IF p = path THEN content ELSE fs[p]]

\* directory.mkdir(parents=True, exist_ok=True), succeeding.
mkdir(ds, directory) == ds \cup Parents(directory) \cup { directory }

\* ---------------------------------------------------------------- state
VARIABLES
  run,            \* the number of the current launch of the program
  status,         \* "running", "done" (exit code 0) or "failed" (uncaught error)
  pc,             \* the statement the launch is at (or ended at)
  i,              \* the 1-based index of the current loop iteration
  rng,            \* numpy's global generator state
  datasets,       \* the `datasets` dict: name/frame pairs in insertion order
  metadata_info,  \* << >> while unbound, else << the dict >>
  stdout,         \* the lines this launch wrote to standard output ("+" stands
                  \* for the check mark U+2713)
  dirs,           \* the directories that exist below base_dir
  files,          \* the files that exist below base_dir: path -> content
  files0,         \* history: `files` when this launch started
  trace           \* history: the I/O and generation steps of this launch

vars == << run, status, pc, i, rng, datasets, metadata_info, stdout, dirs,
           files, files0, trace >>

memory == << rng, datasets, metadata_info >>
disk == << dirs, files >>

\* The global generator of a fresh process is seeded from OS entropy.
FreshRng == { seed(s) : s \in 0..MaxEntropy }

\* Mutant of Uncaught: the error is swallowed and the launch goes on.
Uncaught_swallowed == "running"

\* The status of a launch after an exception no handler catches: the
\* process terminates.
Uncaught == "failed"

\* The target directory before the first launch holds no file; any of the
\* directories may exist already (a directory never exists without its
\* parent).
TargetDirs ==
  { ds \in SUBSET ({ data_dir } \cup { Directories[k] : k \in 1..Len(Directories) }) :
      \A d \in ds \ { data_dir } : Parents(d) \subseteq ds }

Event(kind, what) == [kind |-> kind, what |-> what]

Init ==
  /\ run = 1
  /\ status = "running"
  /\ pc = "mkdir"
  /\ i = 1
  /\ rng \in FreshRng
  /\ datasets = << >>
  /\ metadata_info = << >>
  /\ stdout = Banner
  /\ dirs \in TargetDirs
  /\ files = << >>
  /\ files0 = << >>
  /\ trace = << >>

\* ---------------------------------------------------------- lines 72-75
MkdirOk ==
  /\ status = "running" /\ pc = "mkdir"
  /\ dirs' = mkdir(dirs, Directories[i])
  /\ trace' = Append(trace, Event("mkdir", Directories[i]))
  /\ IF i < Len(Directories)
       THEN /\ i' = i + 1
            /\ UNCHANGED << pc, stdout >>
       ELSE /\ i' = 1
            /\ pc' = "generate"
            /\ stdout' = Append(stdout, "+ Created data directories")
  /\ UNCHANGED << run, status, memory, files, files0 >>

\* mkdir raises (permissions, a file in the way, ...): the missing parent
\* may or may not have been created before the error.
MkdirFail ==
  /\ status = "running" /\ pc = "mkdir"
  /\ \E made \in SUBSET Parents(Directories[i]) : dirs' = dirs \cup made
  /\ status' = Uncaught
  /\ trace' = Append(trace, Event("error", Directories[i]))
  /\ UNCHANGED << run, pc, i, memory, stdout, files, files0 >>

\* ---------------------------------------------------------- lines 78-86
\* The dict display of lines 78-84: one call of create_sample_data per key,
\* in order, each starting from the generator state the one before left.
RECURSIVE BuildDatasets(_, _)
BuildDatasets(names, g) ==
  IF names = << >> THEN << >>
  ELSE << [name |-> Head(names), df |-> create_sample_data(g)] >>
         \o BuildDatasets(Tail(names), StateAfterCreate(g))

\* The generator state after the calls for `names`.
RECURSIVE RngAfter(_, _)
RngAfter(names, g) ==
  IF names = << >> THEN g ELSE RngAfter(Tail(names), StateAfterCreate(g))

Generate ==
  /\ status = "running" /\ pc = "generate"
  /\ datasets' = BuildDatasets(DatasetNames, rng)
  /\ rng' = RngAfter(DatasetNames, rng)
  /\ trace' = trace \o [k \in 1..Len(DatasetNames) |->
                          Event("generate", DatasetNames[k])]
  /\ stdout' = Append(stdout, "+ Generated "
       \o ToString(Len(datasets')) \o " sample datasets")
  /\ pc' = "save"
  /\ UNCHANGED << run, status, i, metadata_info, disk, files0 >>

\* ---------------------------------------------------------- lines 89-92
SaveOk ==
  /\ status = "running" /\ pc = "save"
  /\ LET name == datasets[i].name
         df   == datasets[i].df
     IN  /\ files' = WriteFile(files, csv_file(name), CsvContent(to_csv(df)))
         /\ trace' = Append(trace, Event("write", csv_file(name)))
         /\ stdout' = Append(stdout, "+ Saved " \o name \o ".csv ("
              \o ToString(len(df)) \o " rows, "
              \o ToString(Len(df.columns)) \o " columns)")
  /\ IF i < Len(datasets)
       THEN i' = i + 1 /\ pc' = pc
       ELSE i' = 1 /\ pc' = "metadata"
  /\ UNCHANGED << run, status, memory, dirs, files0 >>

\* to_csv raises before the file is opened for writing.
SaveFailOpen ==
  /\ status = "running" /\ pc = "save"
  /\ status' = Uncaught
  /\ trace' = Append(trace, Event("error", csv_file(datasets[i].name)))
  /\ UNCHANGED << run, pc, i, memory, stdout, disk, files0 >>

\* to_csv raises after the file was opened (and so truncated): a prefix of
\* the text is left behind.
SaveFailWrite ==
  /\ status = "running" /\ pc = "save"
  /\ \E k \in 0..MaxPartial :
       files' = WriteFile(files, csv_file(datasets[i].name),
                          CsvCut(to_csv(datasets[i].df), k))
  /\ status' = Uncaught
  /\ trace' = Append(trace, Event("error", csv_file(datasets[i].name)))
  /\ UNCHANGED << run, pc, i, memory, stdout, dirs, files0 >>

\* --------------------------------------------------------- lines 95-113
\* The loop of lines 102-113 over datasets.items().
RECURSIVE FillMetadata(_, _)
FillMetadata(info, items) ==
  IF items = << >> THEN info
  ELSE FillMetadata(AppendFile(info, file_info(Head(items).name, Head(items).df)),
                    Tail(items))

BuildMetadata ==
  /\ status = "running" /\ pc = "metadata"
  /\ metadata_info' = << FillMetadata(NewMetadata, datasets) >>
  /\ pc' = "dump"
  /\ UNCHANGED << run, status, i, rng, datasets, stdout, disk, files0, trace >>

\* -------------------------------------------------------- lines 116-138
\* What lines 120-138 write to standard output once the metadata file is
\* written.
Summary ==
  << "+ Created metadata file: " \o metadata_file[2],
     "Dataset Summary:", Rule("-", 30),
     "Total datasets: " \o ToString(Len(datasets)),
     "Total samples: " \o ToString(
        SumRange([k \in 1..Len(datasets) |-> len(datasets[k].df)],
                 1, Len(datasets))),
     "Average defect rate: " \o FormatPercent(
        SumRange([k \in 1..Len(datasets) |->
                    SumRange(Column(datasets[k].df, "defects"), 1,
                             len(datasets[k].df))], 1, Len(datasets)),
        SumRange([k \in 1..Len(datasets) |-> len(datasets[k].df)],
                 1, Len(datasets))),
     "Example data from kc1.csv:" >>
  \o FrameLines(head((CHOOSE d \in { datasets[k] : k \in 1..Len(datasets) } :
                        d.name = "kc1").df))
  \o << Rule("=", 50), "Demo completed successfully!",
        "You can now run 'python scripts/analyze_data.py' to analyze the data." >>

DumpOk ==
  /\ status = "running" /\ pc = "dump"
  /\ files' = WriteFile(files, metadata_file, JsonContent(metadata_info[1]))
  /\ trace' = Append(trace, Event("write", metadata_file))
  /\ stdout' = stdout \o Summary
  /\ status' = "done"
  /\ UNCHANGED << run, pc, i, memory, dirs, files0 >>

\* open(metadata_file, 'w') raises.
DumpFailOpen ==
  /\ status = "running" /\ pc = "dump"
  /\ status' = Uncaught
  /\ trace' = Append(trace, Event("error", metadata_file))
  /\ UNCHANGED << run, pc, i, memory, stdout, disk, files0 >>

\* json.dump raises after the file was opened: a prefix is left behind.
DumpFailWrite ==
  /\ status = "running" /\ pc = "dump"
  /\ \E k \in 0..MaxPartial :
       files' = WriteFile(files, metadata_file, JsonCut(metadata_info[1], k))
  /\ status' = Uncaught
  /\ trace' = Append(trace, Event("error", metadata_file))
  /\ UNCHANGED << run, pc, i, memory, stdout, dirs, files0 >>

\* ------------------------------------------------------------- line 145
\* After a launch that completed, the program is started again on the same
\* target directory: a new process, with nothing in memory and the disk as
\* the last launch left it.
Launch ==
  /\ status = "done"
  /\ run < MaxRuns
  /\ run' = run + 1
  /\ status' = "running"
  /\ pc' = "mkdir"
  /\ i' = 1
  /\ rng' \in FreshRng
  /\ datasets' = << >>
  /\ metadata_info' = << >>
  /\ stdout' = Banner
  /\ files0' = files
  /\ trace' = << >>
  /\ UNCHANGED disk

Next ==
  \/ MkdirOk \/ MkdirFail
  \/ Generate
  \/ SaveOk \/ SaveFailOpen \/ SaveFailWrite
  \/ BuildMetadata
  \/ DumpOk \/ DumpFailOpen \/ DumpFailWrite
  \/ Launch

Spec == Init /\ [][Next]_vars

\* ======================================================================
\* The claims
\* ======================================================================
\* What the claims state literally: the schema, the ranges, the names.
ClaimedColumns ==
  << "loc", "v_g", "ev_g", "iv_g", "n", "v", "d", "i", "e", "b", "t",
     "lOCode", "lOComment", "lOBlank", "lOCodeAndComment", "uniq_Op",
     "uniq_Opnd", "total_Op", "total_Opnd", "branchCount", "defects" >>

ClaimedRange ==
  [loc |-> <<10, 10000>>, v_g |-> <<1, 50>>, ev_g |-> <<1, 100>>,
   iv_g |-> <<1, 30>>, n |-> <<5, 500>>, v |-> <<10, 2000>>,
   d |-> <<1, 100>>, i |-> <<1, 50>>, e |-> <<50, 50000>>,
   b |-> <<1, 1000>>, t |-> <<1, 3000>>, lOCode |-> <<5, 8000>>,
   lOComment |-> <<0, 2000>>, lOBlank |-> <<0, 1000>>,
   lOCodeAndComment |-> <<0, 100>>, uniq_Op |-> <<1, 50>>,
   uniq_Opnd |-> <<1, 100>>, total_Op |-> <<10, 1000>>,
   total_Opnd |-> <<10, 2000>>, branchCount |-> <<0, 200>>]

ClaimedNames == << "kc1", "kc2", "pc1", "pc2", "cm1" >>

ClaimedCsvPaths ==
  { << "data/processed", ClaimedNames[k] \o ".csv" >> : k \in 1..5 }

ClaimedJsonPath == << "data/metadata", "dataset_info.json" >>

\* The datasets are built.
Generated == pc \notin { "mkdir", "generate" }

\* C1: every dataset built so far is named kc1, kc2, pc1, pc2, cm1 in that
\* order and has exactly 1000 rows and exactly the 21 columns of the schema,
\* in order; once generation is over there are exactly five of them.
C1_Shape ==
  /\ Len(datasets) <= 5
  /\ Generated => Len(datasets) = 5
  /\ \A k \in 1..Len(datasets) :
       /\ datasets[k].name = ClaimedNames[k]
       /\ datasets[k].df.columns = ClaimedColumns
       /\ Len(datasets[k].df.values) = 21
       /\ \A c \in 1..Len(datasets[k].df.values) :
            DOMAIN datasets[k].df.values[c] = 1..1000

\* The five datasets of a launch are built and none is written yet.
C1_Witness == Len(datasets) = 5 /\ pc = "save" /\ i = 1 /\ status = "running"

\* C2: every value of every feature column of every dataset built so far is
\* an integer within the documented [min, max) range of its column.
C2_Ranges ==
  \A k \in 1..Len(datasets) :
    \A c \in 1..Len(datasets[k].df.columns) :
      LET name == datasets[k].df.columns[c]
      IN  name # "defects" =>
            /\ name \in DOMAIN ClaimedRange
            /\ \A r \in DOMAIN datasets[k].df.values[c] :
                 LET x == datasets[k].df.values[c][r]
                 IN  x \in Int /\ ClaimedRange[name][1] <= x
                       /\ x < ClaimedRange[name][2]

\* All five datasets are built, and a column reaches both ends of its range.
C2_Witness ==
  /\ Len(datasets) = 5
  /\ \E r \in 1..1000 : Column(datasets[5].df, "v_g")[r] = 1
  /\ \E r \in 1..1000 : Column(datasets[5].df, "v_g")[r] = 49

\* C3: every value of the defects column of every dataset built so far is
\* 0 or 1.
C3_Binary ==
  \A k \in 1..Len(datasets) :
    LET labels == Column(datasets[k].df, "defects")
    IN  \A r \in DOMAIN labels : labels[r] \in { 0, 1 }

\* A dataset is built whose label column holds both values.
C3_Witness ==
  /\ Len(datasets) >= 1
  /\ \E r \in 1..1000 : Column(datasets[1].df, "defects")[r] = 0
  /\ \E r \in 1..1000 : Column(datasets[1].df, "defects")[r] = 1

\* C4: create_sample_data returns the same table whatever the generator
\* state it is called in: the datasets of one launch are identical to each
\* other, and identical to what the launch before wrote to disk.
C4_Deterministic ==
  /\ \A k \in 1..Len(datasets) : datasets[k].df = datasets[1].df
  /\ (run > 1 /\ Len(datasets) >= 1) =>
       \A p \in ClaimedCsvPaths :
         /\ p \in DOMAIN files0
         /\ files0[p].text = to_csv(datasets[1].df)

\* A second launch has built all its datasets, starting from another
\* generator state than the calls before it in the same launch.
C4_Witness ==
  /\ run = 2 /\ Len(datasets) = 5
  /\ rng # seed(0) /\ rng # seed(1)

\* The number of cells of a column of a CSV text that read "1".
CsvOnes(text, name) ==
  LET c == CHOOSE c \in 1..Len(text.header) : text.header[c] = name
  IN  Cardinality({ r \in 1..Len(text.rows) : text.rows[r][c] = "1" })

\* C5: after a launch that completed, the "files" array of the document in
\* dataset_info.json has exactly 5 entries, for kc1, kc2, pc1, pc2, cm1 in
\* that order, each with filename "<identifier>.csv", rows 1000, columns 21
\* and the defect rate of the CSV file of that name on disk, as a percentage
\* with two decimals.
C5_Metadata ==
  status = "done" =>
    /\ ClaimedJsonPath \in DOMAIN files
    /\ files[ClaimedJsonPath].complete
    /\ LET entries == files[ClaimedJsonPath].text.files
       IN  /\ Len(entries) = 5
           /\ \A k \in 1..5 :
                LET path == << "data/processed", ClaimedNames[k] \o ".csv" >>
                IN  /\ entries[k].filename = ClaimedNames[k] \o ".csv"
                    /\ entries[k].rows = 1000
                    /\ entries[k].columns = 21
                    /\ path \in DOMAIN files
                    /\ files[path].complete
                    /\ Len(files[path].text.rows) = 1000
                    /\ entries[k].defect_rate =
                         FormatPercent(CsvOnes(files[path].text, "defects"),
                                       Len(files[path].text.rows))

C5_Witness ==
  /\ status = "done"
  /\ files[ClaimedJsonPath].text.files[5].defect_rate = "93.90%"

\* C6: a launch on a target directory without files that completes leaves
\* exactly the 5 CSV files and the JSON file; a launch after it that
\* completes leaves the same 6 files with the same contents, and its
\* metadata document still has 5 entries.
C6_Idempotent ==
  status = "done" =>
    /\ DOMAIN files = ClaimedCsvPaths \cup { ClaimedJsonPath }
    /\ Cardinality(DOMAIN files) = 6
    /\ \A p \in DOMAIN files : files[p].complete
    /\ Len(files[ClaimedJsonPath].text.files) = 5
    /\ run > 1 => files = files0

\* A second launch overwrote all six files and completed.
C6_Witness ==
  /\ run = 2 /\ status = "done"
  /\ \A p \in ClaimedCsvPaths \cup { ClaimedJsonPath } :
       \E k \in 1..Len(trace) : trace[k] = Event("write", p)

\* The steps of the launch so far, without the error that ended it.
Steps ==
  IF trace # << >> /\ trace[Len(trace)].kind = "error"
    THEN SubSeq(trace, 1, Len(trace) - 1)
    ELSE trace

\* The paths this launch wrote completely.
Written == { Steps[k].what : k \in { j \in 1..Len(Steps) : Steps[j].kind = "write" } }

\* Path p is on disk as it was when the launch started (there or not).
Untouched(p) ==
  /\ p \in DOMAIN files <=> p \in DOMAIN files0
  /\ p \in DOMAIN files => files[p] = files0[p]

\* The launch failed at the k-th CSV write.
FailedAtSave(k) == status = "failed" /\ pc = "save" /\ i = k

\* C7 as stated: a failure at the k-th CSV write of a launch on a target
\* directory without files leaves exactly the CSV files written before it.
C7_ExactlyEarlierFiles ==
  \A k \in 1..5 :
    (run = 1 /\ FailedAtSave(k)) =>
      DOMAIN files =
        { << "data/processed", ClaimedNames[j] \o ".csv" >> : j \in 1..(k - 1) }

\* C7, amended: an I/O failure ends the launch at that point (the error is
\* the last step of the launch and the only error, no step follows it);
\* every file the launch wrote before it is in place and complete, every
\* file of a later step is as it was when the launch started, and the
\* file of the failed write is either as it was when the launch started or
\* left behind incomplete.
C7_FailureStops ==
  /\ \A k \in 1..Len(trace) :
       trace[k].kind = "error" => k = Len(trace) /\ status = "failed"
  /\ status = "failed" =>
       /\ trace # << >> /\ trace[Len(trace)].kind = "error"
       /\ pc \in { "mkdir", "save", "dump" }
       /\ \A p \in Written : p \in DOMAIN files /\ files[p].complete
       /\ \A p \in (DOMAIN files \cup DOMAIN files0) \ Written :
            \/ Untouched(p)
            \/ /\ p = trace[Len(trace)].what
               /\ p \in DOMAIN files /\ ~files[p].complete
       /\ pc = "mkdir" => Written = {}
       /\ pc = "save" =>
            Written = { << "data/processed", ClaimedNames[j] \o ".csv" >> :
                          j \in 1..(i - 1) }
       /\ pc = "dump" => Written = ClaimedCsvPaths

\* The third CSV write failed after opening the file: two files are
\* complete, the third is there and cut off, the others are missing.
C7_Witness ==
  /\ run = 1 /\ FailedAtSave(3)
  /\ Cardinality(DOMAIN files) = 3
  /\ ~files[<< "data/processed", "pc1.csv" >>].complete

\* C8: in every metadata document, in memory or written, the missing-value
\* count of each of the 21 columns of each dataset entry is 0.
NoMissing(doc) ==
  \A k \in 1..Len(doc.files) :
    /\ DOMAIN doc.files[k].missing_values =
         { ClaimedColumns[c] : c \in 1..21 }
    /\ \A name \in DOMAIN doc.files[k].missing_values :
         doc.files[k].missing_values[name] = 0

C8_NoMissing ==
  /\ metadata_info # << >> => NoMissing(metadata_info[1])
  /\ ClaimedJsonPath \in DOMAIN files => NoMissing(files[ClaimedJsonPath].text)

C8_Witness ==
  /\ status = "done"
  /\ Len(files[ClaimedJsonPath].text.files) = 5
  /\ Len(metadata_info[1].files) = 5

\* C9: once the directory loop is over data/raw exists, and at every point
\* of every launch the files on disk are among the five CSV files in
\* data/processed and dataset_info.json in data/metadata: none is in
\* data/raw.
C9_RawEmpty ==
  /\ pc # "mkdir" => "data/raw" \in dirs
  /\ \A k \in 1..Len(trace) :
       trace[k].kind = "write" =>
         trace[k].what \in ClaimedCsvPaths \cup { ClaimedJsonPath }
  /\ \A p \in DOMAIN files :
       /\ p \in ClaimedCsvPaths \cup { ClaimedJsonPath }
       /\ p[1] # "data/raw"

\* The launch created data/raw itself and wrote all six files.
C9_Witness ==
  /\ run = 1 /\ status = "done"
  /\ trace[1] = Event("mkdir", "data/raw")
  /\ Cardinality(DOMAIN files) = 6

\* The order the claim gives to the steps of one launch.
ClaimedOrder ==
  << Event("mkdir", "data/raw"), Event("mkdir", "data/processed"),
     Event("mkdir", "data/metadata") >>
  \o [k \in 1..5 |-> Event("generate", ClaimedNames[k])]
  \o [k \in 1..5 |->
        Event("write", << "data/processed", ClaimedNames[k] \o ".csv" >>)]
  \o << Event("write", ClaimedJsonPath) >>

\* C10: the steps of a launch happen in the fixed order: the three
\* directories, the five datasets, the five CSV files kc1, kc2, pc1, pc2,
\* cm1, then dataset_info.json; so when a launch has written
\* dataset_info.json it has written all five CSV files.
C10_Order ==
  /\ Len(Steps) <= Len(ClaimedOrder)
  /\ Steps = SubSeq(ClaimedOrder, 1, Len(Steps))
  /\ ClaimedJsonPath \in Written => ClaimedCsvPaths \subseteq Written

C10_Witness ==
  /\ Len(trace) = Len(ClaimedOrder)
  /\ ClaimedJsonPath \in Written
====
